---- MODULE Spec2Model ----
(***************************************************************************)
(* The DRSA engine of src/src/imo_drsa/drsa.py as a state machine: one     *)
(* engine object (its attributes are the variables), one caller that       *)
(* invokes one method at a time and then takes the returned value.  The    *)
(* same caller holds an AutomatedDM of src/src/imo_drsa/decision_maker.py. *)
(* Spec is the engine's caller, SpecAssoc the caller of the association    *)
(* summary, SpecDM the caller of the decision maker.                       *)
(*                                                                         *)
(* Python indices are kept as in the source: criteria are 0-based column   *)
(* indices, objects (rows) are numbered 1..N here, so F_pareto[y][i + 1]   *)
(* is the source's F_pareto[y - 1, i].                                     *)
(***************************************************************************)
EXTENDS Integers, Sequences, FiniteSets, TLC

VARIABLES is_fit, F_pareto, decision_attribute, criteria, N, m, direction,
          hv_indicator, max_rounds, vol_eps, prev_rules, prev_hv, round,
          false_returns,
          pc, ret

vars == <<is_fit, F_pareto, decision_attribute, criteria, N, m, direction,
          hv_indicator, max_rounds, vol_eps, prev_rules, prev_hv, round,
          false_returns, pc, ret>>

engine == <<is_fit, F_pareto, decision_attribute, criteria, N, m, direction>>

\* The attributes of the AutomatedDM the caller holds, and false_returns, the
\* number of its is_satisfied calls that have returned False.  An attribute
\* that may be None is a sequence: <<>> for None, <<v>> for the value v.
\* Hypervolumes and vol_eps are in thousandths.
automated_dm == <<hv_indicator, max_rounds, vol_eps, prev_rules, prev_hv, round,
                  false_returns>>

-----------------------------------------------------------------------------
(* Bounds and input domains.                                               *)

\* Largest number of objects (rows) of an enumerated objective matrix.
MaxN == 2

\* Longest list of reducts handed to core().
MaxReducts == 2

\* Column indices of the enumerated objective matrices.
Columns == {0, 1}

\* Objective values of the enumerated objective matrices.
Values == {1, 2}

\* Decision classes of the enumerated decision attributes.
Classes == {1, 2}

\* "sideways" stands for any direction string other than "up" and "down".
Directions == {"up", "down", "sideways"}

\* Thresholds the caller passes to the approximation operators.
Thresholds == {2, 3}

-----------------------------------------------------------------------------
(* Helpers for tuples and arrays.                                          *)

Max(a, b) == IF a >= b THEN a ELSE b

RECURSIVE SortedTuple(_)
\* tuple(sorted(S)) for a finite set S of integers
SortedTuple(S) ==
  IF S = {} THEN <<>>
  ELSE LET lo == CHOOSE a \in S : \A b \in S : a <= b
       IN  <<lo>> \o SortedTuple(S \ {lo})

\* set(tup)
ToSet(tup) == {tup[k] : k \in 1..Len(tup)}

\* decision_attribute.max()
ArrayMax(a) == CHOOSE v \in ToSet(a) : \A w \in ToSet(a) : w <= v

\* F.shape[1]
NumCols(F) == Len(F[1])

\* The criteria tuples the caller uses: each subset of Columns, ascending.
CriteriaTuples == {SortedTuple(S) : S \in SUBSET Columns}

\* The objective matrices the caller fits: every MaxN-bounded matrix over
\* Values with one column per element of Columns.
Matrices ==
  UNION {[1..n -> [1..Cardinality(Columns) -> Values]] : n \in 1..MaxN}

\* The decision attributes of length n over the classes C.
DecisionVectors(n, C) == [1..n -> C]

\* The concrete scenario of the documentation: three objects with the
\* classes 1, 2, 3 and one criterion.
ScenarioF == << <<1>>, <<2>>, <<3>> >>
ScenarioDecision == <<1, 2, 3>>
ScenarioCriteria == <<0>>
ScenarioClasses == ToSet(ScenarioDecision)

\* The scenario's matrix with a second column over Values.
ScenarioWide ==
  {[y \in 1..Len(ScenarioF) |-> ScenarioF[y] \o <<col[y]>>] :
      col \in [1..Len(ScenarioF) -> Values]}

\* What the caller fits:
\*  - every enumerated matrix with every criteria tuple and every decision
\*    attribute of its length over Classes;
\*  - the scenario's matrix and criteria with every decision attribute over
\*    the scenario's classes of its length or shorter (fit() takes a decision
\*    attribute of any length);
\*  - the scenario's matrix widened by a column, with every criteria tuple
\*    and every decision attribute of its length over the scenario's classes.
FitInputs ==
  UNION {{[F |-> F, criteria |-> c, decision |-> d] :
             c \in CriteriaTuples, d \in DecisionVectors(Len(F), Classes)} :
         F \in Matrices}
  \cup UNION {{[F |-> ScenarioF, criteria |-> ScenarioCriteria, decision |-> d] :
                  d \in DecisionVectors(l, ScenarioClasses)} : l \in 1..Len(ScenarioF)}
  \cup {[F |-> F, criteria |-> c, decision |-> d] :
           F \in ScenarioWide, c \in CriteriaTuples,
           d \in DecisionVectors(Len(ScenarioF), ScenarioClasses)}

-----------------------------------------------------------------------------
(* What a call leaves with the caller.                                     *)

\* The arguments of a call; a method reads the ones it takes.
\*   P        criteria      t      threshold
\*   reducts  the list handed to core(), omitted = TRUE when it is left out
\*   rules    the list handed to explain_rules()
\*   minimal  the flag handed to induce_decision_rules()
\*   assoc_rules, top_k  the arguments of summarize_association_rules()
\*   T        the sample handed to classify() and is_satisfied(): its number
\*            of rows and the hypervolume the indicator gives it
NoArgs ==
  [P |-> <<>>, t |-> 0, reducts |-> <<>>, omitted |-> FALSE, rules |-> <<>>,
   minimal |-> FALSE, assoc_rules |-> <<>>, top_k |-> -1,
   T |-> [rows |-> 0, hv |-> 0]]

\* status: "ok", or the exception the call ended with:
\*   "NotFitted"       AssertionError "DRSA has not been fit."
\*   "AssertionError"  another failed assert (an argument of fit is None)
\*   "IndexError"      a criterion index outside the matrix's columns
\*   "ValueError"      numpy cannot broadcast the operands together
\*   "InvalidDirection" ValueError "Unknown direction: ..." of subsumes
\*   "TypeError"       'NoneType' object is not callable
Returned(op, args, val) ==
  [op |-> op, args |-> args, status |-> "ok", val |-> val]

Raised(op, args, status) ==
  [op |-> op, args |-> args, status |-> status, val |-> <<>>]

NoCall == Returned("none", NoArgs, <<>>)

-----------------------------------------------------------------------------
(* Dominance cones.                                                        *)

\* some idx of criteria is no column of F_pareto: F_pareto[:, idx] raises
BadIndex(P) == \E k \in 1..Len(P) : P[k] >= NumCols(F_pareto)

\* positive_cone comparing with > where the source compares with >=
positive_cone_strict(P) ==
  [y \in 1..N |-> [x \in 1..N |->
     \A k \in 1..Len(P) : F_pareto[y][P[k] + 1] > F_pareto[x][P[k] + 1]]]

positive_cone(P) ==
  [y \in 1..N |-> [x \in 1..N |->
     \A k \in 1..Len(P) : F_pareto[y][P[k] + 1] >= F_pareto[x][P[k] + 1]]]

negative_cone(P) ==
  [y \in 1..N |-> [x \in 1..N |->
     \A k \in 1..Len(P) : F_pareto[y][P[k] + 1] <= F_pareto[x][P[k] + 1]]]

-----------------------------------------------------------------------------
(* Rough approximations.  cone has shape (N, N) and                        *)
(* decision_attribute[:, None] shape (L, 1); numpy broadcasts the two to   *)
(* (max(N, L), N) when L = N, L = 1 or N = 1 and raises ValueError         *)
(* otherwise; the reduction over axis 0 leaves a vector of length N.       *)

BroadcastOK ==
  \/ Len(decision_attribute) = N
  \/ Len(decision_attribute) = 1
  \/ N = 1

\* rows of the broadcast array
Rows == Max(N, Len(decision_attribute))

\* index into an axis of length len that is stretched when len = 1
At(len, y) == IF len = 1 THEN 1 ELSE y

decision(y) == decision_attribute[At(Len(decision_attribute), y)]

\* lower_approx_up testing decision > threshold where the source tests >=
lower_approx_up_strict(P, t) ==
  LET cone == positive_cone(P)
  IN  [x \in 1..N |-> \A y \in 1..Rows : ~cone[At(N, y)][x] \/ decision(y) > t]

lower_approx_up(P, t) ==
  LET cone == positive_cone(P)
  IN  [x \in 1..N |-> \A y \in 1..Rows : ~cone[At(N, y)][x] \/ decision(y) >= t]

upper_approx_up(P, t) ==
  LET cone == negative_cone(P)
  IN  [x \in 1..N |-> \E y \in 1..Rows : cone[At(N, y)][x] /\ decision(y) >= t]

lower_approx_down(P, t) ==
  LET cone == negative_cone(P)
  IN  [x \in 1..N |-> \A y \in 1..Rows : ~cone[At(N, y)][x] \/ decision(y) <= t]

upper_approx_down(P, t) ==
  LET cone == positive_cone(P)
  IN  [x \in 1..N |-> \E y \in 1..Rows : cone[At(N, y)][x] /\ decision(y) <= t]

\* how an approximation of (P, t) ends
ApproxStatus(P) ==
  IF BadIndex(P) THEN "IndexError"
  ELSE IF ~BroadcastOK THEN "ValueError"
  ELSE "ok"

-----------------------------------------------------------------------------
(* Quality of approximation.  The float consistent_mask.sum() / N is kept  *)
(* as the pair <<consistent_mask.sum(), N>>; two such floats are compared  *)
(* as the fractions they round.                                            *)

QEq(a, b) == a[1] * b[2] = b[1] * a[2]
QLeq(a, b) == a[1] * b[2] <= b[1] * a[2]

\* boundary of the class union at t, on the engine's direction
boundary(P, t) ==
  LET lower == IF direction = "up" THEN lower_approx_up(P, t)
               ELSE lower_approx_down(P, t)
      upper == IF direction = "up" THEN upper_approx_up(P, t)
               ELSE upper_approx_down(P, t)
  IN  [x \in 1..N |-> upper[x] /\ ~lower[x]]

consistent_mask(P) ==
  [x \in 1..N |-> \A t \in 2..m : ~boundary(P, t)[x]]

\* quality counting the objects of consistent_mask &= boundary (the ~ lost)
quality_boundary(P) ==
  LET mask == [x \in 1..N |-> \A t \in 2..m : boundary(P, t)[x]]
  IN  <<Cardinality({x \in 1..N : mask[x]}), N>>

quality(P) ==
  LET mask == consistent_mask(P)
  IN  <<Cardinality({x \in 1..N : mask[x]}), N>>

\* the loop over t in range(2, m + 1) runs the approximations only if m >= 2
QualityStatus(P) == IF m >= 2 THEN ApproxStatus(P) ELSE "ok"

-----------------------------------------------------------------------------
(* Reducts and core.                                                       *)

RECURSIVE combinations(_, _)
\* itertools.combinations(s, r), as the list it yields
combinations(s, r) ==
  IF r = 0 THEN << <<>> >>
  ELSE IF Len(s) < r THEN <<>>
  ELSE LET with == combinations(Tail(s), r - 1)
           without == combinations(Tail(s), r)
       IN  [k \in 1..Len(with) |-> <<Head(s)>> \o with[k]] \o without

\* not any(set(red).issubset(subset) for red in reducts)
NoReductInside(reducts, subset) ==
  ~\E j \in 1..Len(reducts) : ToSet(reducts[j]) \subseteq ToSet(subset)

RECURSIVE ScanSubsetsAnyQuality(_, _, _, _)
\* the inner loop of find_reducts without its test of the subset's quality
ScanSubsetsAnyQuality(subsets, k, full_quality, reducts) ==
  IF k > Len(subsets) THEN reducts
  ELSE LET subset == subsets[k]
           keep == NoReductInside(reducts, subset)
       IN  ScanSubsetsAnyQuality(subsets, k + 1, full_quality,
                                 IF keep THEN Append(reducts, subset) ELSE reducts)

RECURSIVE ScanSubsets(_, _, _, _)
\* the inner loop of find_reducts from the k-th subset on
ScanSubsets(subsets, k, full_quality, reducts) ==
  IF k > Len(subsets) THEN reducts
  ELSE LET subset == subsets[k]
           keep == /\ QEq(quality(subset), full_quality)
                   /\ NoReductInside(reducts, subset)
       IN  ScanSubsets(subsets, k + 1, full_quality,
                       IF keep THEN Append(reducts, subset) ELSE reducts)

RECURSIVE ScanSizesDescending(_, _)
\* the outer loop of find_reducts trying the largest subsets first
ScanSizesDescending(r, full_quality) ==
  IF r > Len(criteria) THEN <<>>
  ELSE LET reducts == ScanSubsets(combinations(criteria, Len(criteria) + 1 - r),
                                  1, full_quality, <<>>)
       IN  IF Len(reducts) > 0 THEN reducts
           ELSE ScanSizesDescending(r + 1, full_quality)

RECURSIVE ScanSizes(_, _)
\* the outer loop of find_reducts from size r on, with its break
ScanSizes(r, full_quality) ==
  IF r > Len(criteria) THEN <<>>
  ELSE LET reducts == ScanSubsets(combinations(criteria, r), 1, full_quality, <<>>)
       IN  IF Len(reducts) > 0 THEN reducts ELSE ScanSizes(r + 1, full_quality)

\* find_reducts without the fallback to the full criteria set
find_reducts_no_fallback == ScanSizes(1, quality(criteria))

find_reducts ==
  LET reducts == ScanSizes(1, quality(criteria))
  IN  IF Len(reducts) = 0 THEN <<criteria>> ELSE reducts

\* find_reducts raises what its first call of quality raises; the later
\* calls take subsets of criteria on the same arrays and raise nothing new
FindReductsStatus == QualityStatus(criteria)

RECURSIVE IntersectionAsUnion(_, _)
\* core_set |= set(red) where the source has core_set &= set(red)
IntersectionAsUnion(reducts, k) ==
  IF k > Len(reducts) THEN ToSet(reducts[1])
  ELSE ToSet(reducts[k]) \cup IntersectionAsUnion(reducts, k + 1)

RECURSIVE Intersection(_, _)
\* core_set after the reducts from the k-th on were intersected into it
Intersection(reducts, k) ==
  IF k > Len(reducts) THEN ToSet(reducts[1])
  ELSE ToSet(reducts[k]) \cap Intersection(reducts, k + 1)

\* `reducts or self.find_reducts()`: None and the empty list are both falsy
UsesFindReducts(reducts, omitted) == omitted \/ Len(reducts) = 0

core(reducts, omitted) ==
  LET rs == IF UsesFindReducts(reducts, omitted) THEN find_reducts ELSE reducts
  IN  IF Len(rs) = 0 THEN <<>>
      ELSE SortedTuple(Intersection(rs, 2))

CoreStatus(reducts, omitted) ==
  IF UsesFindReducts(reducts, omitted) THEN FindReductsStatus ELSE "ok"

\* explain_rules(rules, verbose): '[idx] desc' for each rule, kept as the
\* pair <<idx, desc>>; desc is the rule's last component
explain_rules(rules) ==
  [k \in 1..Len(rules) |-> <<k - 1, rules[k][Len(rules[k])]>>]

-----------------------------------------------------------------------------
(* Decision-rule induction.  A rule is the tuple                           *)
(*   <<profile, concl, support, confidence, kind, direction, desc>>        *)
(* of the source.  profile is the dict {i: F_pareto[idx, i]}, a function   *)
(* on the criteria; support = mask.mean() is kept as the pair              *)
(* <<mask.sum(), N>> and confidence = (decision[mask] ~ t).mean() as the   *)
(* pair <<hits, mask.sum()>>.                                              *)

\* `criteria = criteria or self.criteria`: the empty tuple is falsy
EffectiveCriteria(P) == IF Len(P) = 0 THEN criteria ELSE P

\* comp / cmp_op: operator.ge when direction is 'up', operator.le otherwise
comp(a, b) == IF direction = "up" THEN a >= b ELSE a <= b

\* conf_fn's test of a decision class against the threshold
MeetsThreshold(d, t) == IF direction = "up" THEN d >= t ELSE d <= t

\* the profile of object idx on the criteria P
Profile(idx, P) == [i \in ToSet(P) |-> F_pareto[idx][i + 1]]

\* mask: the objects that satisfy the premise of a profile
PremiseMask(profile) ==
  [y \in 1..N |-> \A i \in DOMAIN profile : comp(F_pareto[y][i + 1], profile[i])]

\* f"{x:.2f}" of the fraction q, in hundredths (no fraction over so few
\* objects lies halfway between two hundredths)
Round2(q) == (200 * q[1] + q[2]) \div (2 * q[2])

\* make_rule_description: the text, kept as the tuple of its parts; each
\* condition f"f_{idx + 1}(x) {op} {-val}" is a triple, in the order of P
make_rule_description(P, profile, conclusion, support, confidence, kind) ==
  LET op == IF direction = "up" THEN "<=" ELSE ">="
      conds == [k \in 1..Len(P) |-> <<P[k] + 1, op, 0 - profile[P[k]]>>]
  IN  <<IF kind = "certain" THEN "CERTAIN" ELSE "POSSIBLE", conds, conclusion,
        Round2(support), Round2(confidence)>>

\* the rule induced from object idx as a rule of the given kind
RuleOf(kind, idx, P, t) ==
  LET profile == Profile(idx, P)
      mask == PremiseMask(profile)
      covered == {y \in 1..N : mask[y]}
      support == <<Cardinality(covered), N>>
      confidence == <<Cardinality({y \in covered : MeetsThreshold(decision_attribute[y], t)}),
                      Cardinality(covered)>>
      concl == "x is 'good'"
      desc == make_rule_description(P, profile, concl, support, confidence, kind)
  IN  <<profile, concl, support, confidence, kind, direction, desc>>

\* is_robust: some object meets the premise and equals the profile on
\* every profiled criterion
is_robust(rule) ==
  LET profile == rule[1]
      mask == PremiseMask(profile)
  IN  \E y \in 1..N :
         /\ \A i \in DOMAIN profile : F_pareto[y][i + 1] = profile[i]
         /\ mask[y]

\* the lower and upper approximations induce_decision_rules selects
InduceUpper(P, t) ==
  IF direction = "up" THEN upper_approx_up(P, t) ELSE upper_approx_down(P, t)

\* lower taken from the upper approximation
InduceLowerAsUpper(P, t) == InduceUpper(P, t)

InduceLower(P, t) ==
  IF direction = "up" THEN lower_approx_up(P, t) ELSE lower_approx_down(P, t)

\* np.where(v)[0]: the indices at which v holds, ascending
Where(v) == SelectSeq([x \in 1..Len(v) |-> x], LAMBDA x : v[x])

\* Candidates with np.where(upper) where the source has np.where(upper & ~lower)
CandidatesAllUpper(P, t) ==
  LET lower == InduceLower(P, t)
      upper == InduceUpper(P, t)
      certain == Where(lower)
      possible == Where(upper)
  IN  [k \in 1..Len(certain) |-> <<"certain", certain[k]>>]
      \o [k \in 1..Len(possible) |-> <<"possible", possible[k]>>]

\* the (kind, idx) pairs the two loops of induce_decision_rules run through
Candidates(P, t) ==
  LET lower == InduceLower(P, t)
      upper == InduceUpper(P, t)
      certain == Where(lower)
      possible == Where([x \in 1..N |-> upper[x] /\ ~lower[x]])
  IN  [k \in 1..Len(certain) |-> <<"certain", certain[k]>>]
      \o [k \in 1..Len(possible) |-> <<"possible", possible[k]>>]

RECURSIVE CollectRules(_, _, _, _, _, _)
\* the loops from the k-th candidate on: a rule is built for each, taken
\* once per description (seen) and appended if it is robust
CollectRules(cands, k, P, t, seen, rules) ==
  IF k > Len(cands) THEN rules
  ELSE LET rule == RuleOf(cands[k][1], cands[k][2], P, t)
           desc == rule[7]
       IN  IF desc \in seen THEN CollectRules(cands, k + 1, P, t, seen, rules)
           ELSE CollectRules(cands, k + 1, P, t, seen \cup {desc},
                             IF is_robust(rule) THEN Append(rules, rule) ELSE rules)

\* subsumes(r1, r2) where the direction is 'up' or 'down': r2 has the same
\* conclusion, its keys are among r1's and no threshold of r2 is stricter
subsumes(r1, r2) ==
  /\ r1[2] = r2[2]
  /\ DOMAIN r2[1] \subseteq DOMAIN r1[1]
  /\ \A i \in DOMAIN r2[1] :
        IF direction = "up" THEN ~(r2[1][i] > r1[1][i])
        ELSE ~(r2[1][i] < r1[1][i])

\* subsumes reaches its `else: raise ValueError("Unknown direction ...")`:
\* the conclusions agree, the keys are included, the direction is unknown
SubsumesRaises(r1, r2) ==
  /\ r1[2] = r2[2]
  /\ DOMAIN r2[1] \subseteq DOMAIN r1[1]
  /\ direction \notin {"up", "down"}

\* the minimal filter keeping every rule
minimal_rules_unfiltered(rules) == rules

\* minimal_rules: the rules that no other rule of the list subsumes
minimal_rules(rules) ==
  SelectSeq(rules, LAMBDA r1 :
     ~\E k \in 1..Len(rules) : rules[k] # r1 /\ subsumes(r1, rules[k]))

\* induce_decision_rules building each profile from the best value of each
\* criterion among the objects, and appending without the robustness test
InducedIdealRules(P, t) ==
  LET cands == Candidates(P, t)
      ext(i) == CHOOSE v \in {F_pareto[y][i + 1] : y \in 1..N} :
                   \A y \in 1..N : comp(v, F_pareto[y][i + 1])
      ideal == [i \in ToSet(P) |-> ext(i)]
  IN  [k \in 1..Len(cands) |->
         <<ideal, "x is 'good'", <<1, N>>, <<1, 1>>, cands[k][1], direction,
           <<cands[k][1], cands[k][2]>> >>]

\* the rules before the minimal filter
InducedRules(P, t) ==
  CollectRules(Candidates(P, t), 1, P, t, {}, <<>>)

induce_decision_rules(P, t, minimal) ==
  LET rules == InducedRules(EffectiveCriteria(P), t)
  IN  IF minimal THEN minimal_rules(rules) ELSE rules

\* how induce_decision_rules ends: the approximations raise as usual;
\* decision_attribute[mask] raises IndexError for the first candidate when
\* the decision attribute has not one label per object; the minimal filter
\* raises on its first call of subsumes when the direction is unknown
InduceStatus(P, t, minimal) ==
  LET Q == EffectiveCriteria(P)
      rules == InducedRules(Q, t)
  IN  IF ApproxStatus(Q) # "ok" THEN ApproxStatus(Q)
      ELSE IF Len(decision_attribute) # N /\ Len(Candidates(Q, t)) > 0
        THEN "IndexError"
      ELSE IF minimal /\ direction \notin {"up", "down"}
                      /\ (\E j, k \in 1..Len(rules) :
                            rules[k] # rules[j] /\ SubsumesRaises(rules[j], rules[k]))
        THEN "InvalidDirection"
      ELSE "ok"

-----------------------------------------------------------------------------
(* Association-rule summary.  An association rule is the tuple             *)
(*   <<antecedents, consequents, support, confidence>>                     *)
(* (its fifth component, the description, is not read); an item is the     *)
(* label find_association_rules gives a quartile bin, f"f_{i+1}<=Q{k}".    *)
(* Supports and confidences are kept in thousandths.  A summary text       *)
(*   "If objective {idx_a} is {dir_a}, objective {idx_c} tends to be       *)
(*    {dir_c}"                                                             *)
(* is kept as <<idx_a, dir_a, idx_c, dir_c>>.                              *)

\* the longest list of association rules handed to the summary
MaxAssoc == 3

\* q >= 3 reads "higher"
HigherFrom == 3

Items == {"f_1<=Q1", "f_1<=Q2", "f_2<=Q1", "f_2<=Q4", "f_2"}

\* a.split("<=Q")
SplitQ(a) ==
  CASE a = "f_1<=Q1" -> <<"f_1", "1">>
    [] a = "f_1<=Q2" -> <<"f_1", "2">>
    [] a = "f_2<=Q1" -> <<"f_2", "1">>
    [] a = "f_2<=Q4" -> <<"f_2", "4">>
    [] a = "f_2"     -> <<"f_2">>

\* int(s)
ParseInt(s) ==
  CASE s = "1" -> 1 [] s = "2" -> 2 [] s = "3" -> 3 [] s = "4" -> 4

\* int(pa[0].split("_")[1])
ObjectiveIndex(part) ==
  CASE part = "f_1" -> ParseInt("1") [] part = "f_2" -> ParseInt("2")

Dir(q) == IF q >= HigherFrom THEN "higher" ELSE "lower"

\* the rule has one antecedent and one consequent, both split in two at
\* "<=Q", and is not dropped by `idx_a != idx_c and dir_a != dir_c`
IsKept(rule) ==
  /\ Cardinality(rule[1]) = 1
  /\ Cardinality(rule[2]) = 1
  /\ LET a == CHOOSE a \in rule[1] : TRUE
         c == CHOOSE c \in rule[2] : TRUE
     IN  /\ Len(SplitQ(a)) = 2
         /\ Len(SplitQ(c)) = 2
         /\ ~(/\ ObjectiveIndex(SplitQ(a)[1]) # ObjectiveIndex(SplitQ(c)[1])
              /\ Dir(ParseInt(SplitQ(a)[2])) # Dir(ParseInt(SplitQ(c)[2])))

\* the text of a kept rule
TextOf(rule) ==
  LET pa == SplitQ(CHOOSE a \in rule[1] : TRUE)
      pc_ == SplitQ(CHOOSE c \in rule[2] : TRUE)
  IN  <<ObjectiveIndex(pa[1]), Dir(ParseInt(pa[2])),
        ObjectiveIndex(pc_[1]), Dir(ParseInt(pc_[2]))>>

\* simple_rules before the sort: (text, sup, conf) of the kept rules
SimpleRules(assoc_rules) ==
  LET kept == SelectSeq(assoc_rules, IsKept)
  IN  [k \in 1..Len(kept) |-> <<TextOf(kept[k]), kept[k][3], kept[k][4]>>]

\* "higher" < "lower" as strings
DirLess(d, e) == d = "higher" /\ e = "lower"

\* text1 < text2 as strings, for objective indices of one digit
TextLess(x, y) ==
  \/ x[1] < y[1]
  \/ x[1] = y[1] /\ DirLess(x[2], y[2])
  \/ x[1] = y[1] /\ x[2] = y[2] /\ x[3] < y[3]
  \/ x[1] = y[1] /\ x[2] = y[2] /\ x[3] = y[3] /\ DirLess(x[4], y[4])

\* key(x) < key(y) for key = lambda x: (-x[2], x[0])
KeyLess(x, y) == x[3] > y[3] \/ (x[3] = y[3] /\ TextLess(x[1], y[1]))

RECURSIVE InsertSorted(_, _)
InsertSorted(sorted, x) ==
  IF Len(sorted) = 0 THEN <<x>>
  ELSE IF KeyLess(x, Head(sorted)) THEN <<x>> \o sorted
  ELSE <<Head(sorted)>> \o InsertSorted(Tail(sorted), x)

\* simple_rules left in input order
sort_skipped(rules) == rules

\* simple_rules.sort(key=...): a stable sort
RECURSIVE sort(_)
sort(rules) ==
  IF Len(rules) = 0 THEN <<>>
  ELSE InsertSorted(sort(SubSeq(rules, 1, Len(rules) - 1)), rules[Len(rules)])

\* simple_rules if top_k < 0 else simple_rules[:top_k]
TopRules(simple_rules, top_k) ==
  IF top_k < 0 THEN simple_rules
  ELSE SubSeq(simple_rules, 1, IF top_k < Len(simple_rules) THEN top_k
                               ELSE Len(simple_rules))

\* merged, the dict, as the sequence of its (text, total_sup, best_conf)
\* in insertion order
RECURSIVE Merge(_, _, _)
Merge(top_rules, k, merged) ==
  IF k > Len(top_rules) THEN merged
  ELSE LET r == top_rules[k]
           at == {j \in 1..Len(merged) : merged[j][1] = r[1]}
       IN  IF at # {}
           THEN LET j == CHOOSE j \in at : TRUE
                IN  Merge(top_rules, k + 1,
                          [merged EXCEPT ![j] = <<r[1], merged[j][2] + r[2],
                                                  Max(merged[j][3], r[3])>>])
           ELSE Merge(top_rules, k + 1, Append(merged, r))

\* f"{x:.2f}" of x thousandths, in hundredths
Format2f(x) == (x + 5) \div 10

summarize_association_rules(assoc_rules, top_k) ==
  LET merged == Merge(TopRules(sort(SimpleRules(assoc_rules)), top_k), 1, <<>>)
  IN  [summaries |-> {merged[j] : j \in 1..Len(merged)},
       lines |-> [j \in 1..Len(merged) |->
                    <<merged[j][1], Format2f(merged[j][2]), Format2f(merged[j][3])>>]]

-----------------------------------------------------------------------------
(* The automated decision maker.  A sample T is kept as its number of rows *)
(* and the hypervolume the indicator returns for it: the indicator is an   *)
(* external collaborator.                                                  *)

\* the largest max_rounds the caller constructs a decision maker with
MaxRounds == 3

\* the largest number of rows of a sample
MaxRows == 2

\* __init__(self, max_rounds: int = 3, vol_eps: float = 1e-3, ...)
DefaultMaxRounds == 3
DefaultVolEps == 1

\* vol_eps arguments, in thousandths
VolEps == {DefaultVolEps, 2}

\* hypervolumes, in thousandths
Hypervolumes == {0, 1, 3}

Samples == [rows : 0..MaxRows, hv : Hypervolumes]

Abs(x) == IF x < 0 THEN 0 - x ELSE x

\* is_satisfied returning when round exceeds max_rounds
limit_exceeded(r) == r > max_rounds

\* self.round >= self.max_rounds
limit_reached(r) == r >= max_rounds

\* 1) T.shape[0] <= 1
TooFewSolutions(T) == T.rows <= 1

\* 2) self.prev_hv is not None and abs(hv - self.prev_hv) < self.vol_eps
HypervolumeConverged(T) ==
  Len(prev_hv) = 1 /\ Abs(T.hv - prev_hv[1]) < vol_eps

\* 3) self.prev_rules is not None and rules == self.prev_rules
RulesUnchanged(rules) ==
  Len(prev_rules) = 1 /\ rules = prev_rules[1]

-----------------------------------------------------------------------------
(* The caller's inputs to the queries.                                     *)

\* (support, confidence) of the association rules handed to the summary
RuleStats == {<<104, 500>>, <<332, 667>>, <<104, 667>>}

\* the association rules handed to the summary
AssocRules ==
  { <<{pr[1]}, {pr[2]}, st[1], st[2]>> :
      pr \in { <<"f_1<=Q1", "f_2<=Q1">>, <<"f_1<=Q2", "f_2<=Q1">>,
               <<"f_2<=Q1", "f_2<=Q4">> },
      st \in RuleStats }
  \cup { <<{"f_2<=Q4"}, {"f_2<=Q1"}, 104, 667>>,
         <<{"f_1<=Q1"}, {"f_2<=Q4"}, 104, 667>>,
         <<{"f_1<=Q1", "f_1<=Q2"}, {"f_2<=Q1"}, 104, 667>>,
         <<{"f_2"}, {"f_2<=Q1"}, 104, 667>> }

AssocRuleLists == UNION {[1..l -> AssocRules] : l \in 0..MaxAssoc}

TopKs == {-1, 1}

\* lists of distinct reducts handed to core()
ReductLists ==
  {rs \in UNION {[1..l -> CriteriaTuples] : l \in 0..MaxReducts} :
      \A j, k \in 1..Len(rs) : j # k => rs[j] # rs[k]}

\* lists of rules handed to explain_rules(); a rule is a tuple whose last
\* component is its description
RuleLists ==
  { <<>>, << <<"certain", "d1">> >>, << <<"certain", "d1">>, <<"possible", "d2">> >> }

-----------------------------------------------------------------------------
\* DRSA(): no attribute but is_fit is set; the others are read only after fit
DRSAInit ==
  /\ is_fit = FALSE
  /\ F_pareto = <<>>
  /\ decision_attribute = <<>>
  /\ criteria = <<>>
  /\ N = 0
  /\ m = 0
  /\ direction = ""
  /\ pc = "ready"
  /\ ret = NoCall

\* AutomatedDM(max_rounds=mr, vol_eps=eps)
AutomatedDMInit(mr, eps) ==
  /\ hv_indicator = <<>>
  /\ max_rounds = mr
  /\ vol_eps = eps
  /\ prev_rules = <<>>
  /\ prev_hv = <<>>
  /\ round = 0
  /\ false_returns = 0

\* the engine's caller: a new engine, and a decision maker left with its
\* default arguments
Init ==
  /\ DRSAInit
  /\ AutomatedDMInit(DefaultMaxRounds, DefaultVolEps)

\* the decision maker's caller: any max_rounds and vol_eps
InitDM ==
  /\ DRSAInit
  /\ \E mr \in 0..MaxRounds, eps \in VolEps : AutomatedDMInit(mr, eps)

\* fit(F_pareto_gain_type, criteria, decision_attribute, direction).
\* The engine is configured once (the objective matrix is "immutable once
\* the engine is configured"): the caller fits an engine that is not fitted.
Fit ==
  /\ pc = "ready"
  /\ ~is_fit
  /\ \/ \E missing \in {"F_pareto_gain_type", "criteria", "decision_attribute"} :
          /\ ret' = Raised("fit", NoArgs, "AssertionError")
          /\ UNCHANGED engine
     \/ \E inp \in FitInputs, dir \in Directions :
          /\ F_pareto' = inp.F
          /\ decision_attribute' = inp.decision
          /\ criteria' = inp.criteria
          /\ N' = Len(inp.F)
          /\ m' = ArrayMax(inp.decision)
          /\ direction' = dir
          /\ is_fit' = TRUE
          /\ ret' = Returned("fit", NoArgs, <<>>)
  /\ pc' = "returned"
  /\ UNCHANGED automated_dm

\* A query without its `assert self.is_fit`: on an engine that was never
\* fitted the first read of an attribute raises AttributeError.
GuardedNoAssert(op, args, status, val) ==
  /\ pc = "ready"
  /\ ret' = IF ~is_fit THEN Raised(op, args, "AttributeError")
            ELSE IF status # "ok" THEN Raised(op, args, status)
            ELSE Returned(op, args, val)
  /\ pc' = "returned"
  /\ UNCHANGED engine
  /\ UNCHANGED automated_dm

\* A query: op on args ends as status says, with val when that is "ok".
\* Every instance method begins with `assert self.is_fit`.
Guarded(op, args, status, val) ==
  /\ pc = "ready"
  /\ ret' = IF ~is_fit THEN Raised(op, args, "NotFitted")
            ELSE IF status # "ok" THEN Raised(op, args, status)
            ELSE Returned(op, args, val)
  /\ pc' = "returned"
  /\ UNCHANGED engine
  /\ UNCHANGED automated_dm

ConeStatus(P) == IF BadIndex(P) THEN "IndexError" ELSE "ok"

PositiveCone ==
  \E P \in CriteriaTuples :
    Guarded("positive_cone", [NoArgs EXCEPT !.P = P], ConeStatus(P), positive_cone(P))

NegativeCone ==
  \E P \in CriteriaTuples :
    Guarded("negative_cone", [NoArgs EXCEPT !.P = P], ConeStatus(P), negative_cone(P))

LowerApproxUp ==
  \E P \in CriteriaTuples, t \in Thresholds :
    Guarded("lower_approx_up", [NoArgs EXCEPT !.P = P, !.t = t],
            ApproxStatus(P), lower_approx_up(P, t))

UpperApproxUp ==
  \E P \in CriteriaTuples, t \in Thresholds :
    Guarded("upper_approx_up", [NoArgs EXCEPT !.P = P, !.t = t],
            ApproxStatus(P), upper_approx_up(P, t))

LowerApproxDown ==
  \E P \in CriteriaTuples, t \in Thresholds :
    Guarded("lower_approx_down", [NoArgs EXCEPT !.P = P, !.t = t],
            ApproxStatus(P), lower_approx_down(P, t))

UpperApproxDown ==
  \E P \in CriteriaTuples, t \in Thresholds :
    Guarded("upper_approx_down", [NoArgs EXCEPT !.P = P, !.t = t],
            ApproxStatus(P), upper_approx_down(P, t))

Quality ==
  \E P \in CriteriaTuples :
    Guarded("quality", [NoArgs EXCEPT !.P = P], QualityStatus(P), quality(P))

FindReducts ==
  Guarded("find_reducts", NoArgs, FindReductsStatus, find_reducts)

\* induce_decision_rules storing `criteria or self.criteria` in self.criteria
InduceDecisionRulesStoring ==
  /\ pc = "ready"
  /\ is_fit
  /\ \E P \in CriteriaTuples, t \in Thresholds, minimal \in BOOLEAN :
       /\ ret' = IF InduceStatus(P, t, minimal) # "ok"
                 THEN Raised("induce_decision_rules",
                             [NoArgs EXCEPT !.P = P, !.t = t, !.minimal = minimal],
                             InduceStatus(P, t, minimal))
                 ELSE Returned("induce_decision_rules",
                               [NoArgs EXCEPT !.P = P, !.t = t, !.minimal = minimal],
                               induce_decision_rules(P, t, minimal))
       /\ criteria' = EffectiveCriteria(P)
  /\ pc' = "returned"
  /\ UNCHANGED <<is_fit, F_pareto, decision_attribute, N, m, direction>>
  /\ UNCHANGED automated_dm

InduceDecisionRules ==
  \E P \in CriteriaTuples, t \in Thresholds, minimal \in BOOLEAN :
    Guarded("induce_decision_rules",
            [NoArgs EXCEPT !.P = P, !.t = t, !.minimal = minimal],
            InduceStatus(P, t, minimal), induce_decision_rules(P, t, minimal))

Core ==
  \E reducts \in ReductLists, omitted \in BOOLEAN :
    /\ omitted => reducts = <<>>
    /\ Guarded("core", [NoArgs EXCEPT !.reducts = reducts, !.omitted = omitted],
               CoreStatus(reducts, omitted), core(reducts, omitted))

\* explain_rules is a static method: it has no engine and no fitted guard.
ExplainRules ==
  /\ pc = "ready"
  /\ \E rules \in RuleLists :
       ret' = Returned("explain_rules", [NoArgs EXCEPT !.rules = rules],
                       explain_rules(rules))
  /\ pc' = "returned"
  /\ UNCHANGED engine
  /\ UNCHANGED automated_dm

\* summarize_association_rules is a static method as well.
SummarizeAssociationRules ==
  /\ pc = "ready"
  /\ \E assoc_rules \in AssocRuleLists, top_k \in TopKs :
       ret' = Returned("summarize_association_rules",
                       [NoArgs EXCEPT !.assoc_rules = assoc_rules, !.top_k = top_k],
                       summarize_association_rules(assoc_rules, top_k))
  /\ pc' = "returned"
  /\ UNCHANGED engine
  /\ UNCHANGED automated_dm

\* AutomatedDM.classify(F_pareto, X_pareto): builds the hypervolume
\* indicator and stores the sample's hypervolume; the labels it returns are
\* not kept.  np.max of a sample without rows raises ValueError.
Classify ==
  /\ pc = "ready"
  /\ \E T \in Samples :
       IF T.rows = 0
       THEN /\ ret' = Raised("classify", [NoArgs EXCEPT !.T = T], "ValueError")
            /\ UNCHANGED <<hv_indicator, prev_hv>>
       ELSE /\ hv_indicator' = <<"HV">>
            /\ prev_hv' = <<T.hv>>
            /\ ret' = Returned("classify", [NoArgs EXCEPT !.T = T], <<>>)
  /\ pc' = "returned"
  /\ UNCHANGED <<max_rounds, vol_eps, prev_rules, round, false_returns>>
  /\ UNCHANGED engine

\* AutomatedDM.is_satisfied(X, T, rules).  The caller stops calling once
\* round is past MaxRounds.
IsSatisfied ==
  /\ pc = "ready"
  /\ round <= MaxRounds
  /\ \E T \in Samples, rules \in RuleLists :
       LET args == [NoArgs EXCEPT !.T = T, !.rules = rules]
       IN  IF TooFewSolutions(T)
           THEN /\ ret' = Returned("is_satisfied", args, TRUE)
                /\ UNCHANGED <<prev_hv, prev_rules, round, false_returns>>
           ELSE IF Len(hv_indicator) = 0
           THEN /\ ret' = Raised("is_satisfied", args, "TypeError")
                /\ UNCHANGED <<prev_hv, prev_rules, round, false_returns>>
           ELSE IF HypervolumeConverged(T)
           THEN /\ ret' = Returned("is_satisfied", args, TRUE)
                /\ UNCHANGED <<prev_hv, prev_rules, round, false_returns>>
           ELSE IF RulesUnchanged(rules)
           THEN /\ prev_hv' = <<T.hv>>
                /\ ret' = Returned("is_satisfied", args, TRUE)
                /\ UNCHANGED <<prev_rules, round, false_returns>>
           ELSE /\ prev_hv' = <<T.hv>>
                /\ prev_rules' = <<rules>>
                /\ round' = round + 1
                /\ ret' = Returned("is_satisfied", args, limit_reached(round + 1))
                /\ false_returns' = IF limit_reached(round + 1) THEN false_returns
                                    ELSE false_returns + 1
  /\ pc' = "returned"
  /\ UNCHANGED <<hv_indicator, max_rounds, vol_eps>>
  /\ UNCHANGED engine

\* The caller takes the returned value (or the exception) and is ready for
\* its next call.
Return ==
  /\ pc = "returned"
  /\ pc' = "ready"
  /\ ret' = NoCall
  /\ UNCHANGED engine
  /\ UNCHANGED automated_dm

Next ==
  \/ Fit
  \/ PositiveCone
  \/ NegativeCone
  \/ LowerApproxUp
  \/ UpperApproxUp
  \/ LowerApproxDown
  \/ UpperApproxDown
  \/ Quality
  \/ FindReducts
  \/ InduceDecisionRules
  \/ Core
  \/ ExplainRules
  \/ Return

Spec == Init /\ [][Next]_vars

\* The caller of the association summary: it needs no engine.
NextAssoc ==
  \/ SummarizeAssociationRules
  \/ Return

SpecAssoc == Init /\ [][NextAssoc]_vars

\* The caller of the automated decision maker.
NextDM ==
  \/ Classify
  \/ IsSatisfied
  \/ Return

SpecDM == InitDM /\ [][NextDM]_vars

-----------------------------------------------------------------------------
(* Properties.  A call has returned when pc = "returned"; ret then holds   *)
(* the method, its arguments and its result, and the engine's attributes   *)
(* are the ones the method ran on (no query assigns them).                 *)

Done(op) == pc = "returned" /\ ret.op = op
DoneOk(op) == Done(op) /\ ret.status = "ok"

\* the criteria tuples quality() evaluates on the fitted engine
Evaluable == {Q \in CriteriaTuples : QualityStatus(Q) = "ok"}

\* C1: monotonicity of quality.  When quality(P) has returned on a fitted
\* engine, its value is at most quality(Q) for every criteria superset Q of P
\* and at least quality(Q) for every criteria subset Q of P.
C1_QualityMonotone ==
  (DoneOk("quality") /\ is_fit) =>
     \A Q \in Evaluable :
        /\ ToSet(ret.args.P) \subseteq ToSet(Q) => QLeq(ret.val, quality(Q))
        /\ ToSet(Q) \subseteq ToSet(ret.args.P) => QLeq(quality(Q), ret.val)

\* quality(P) has returned a value strictly below that of a superset of P
C1_Witness ==
  /\ DoneOk("quality") /\ is_fit /\ N >= 1
  /\ \E Q \in Evaluable :
        /\ ToSet(ret.args.P) \subseteq ToSet(Q)
        /\ ~QLeq(quality(Q), ret.val)

\* C2: reduct validity.  Every reduct find_reducts() has returned has the
\* quality of the full criteria set, and no returned reduct is a subset of
\* another returned reduct.
C2_ReductValidity ==
  DoneOk("find_reducts") =>
     /\ \A j \in 1..Len(ret.val) : QEq(quality(ret.val[j]), quality(criteria))
     /\ \A j, k \in 1..Len(ret.val) :
           j # k => ~(ToSet(ret.val[j]) \subseteq ToSet(ret.val[k]))

\* find_reducts() has returned two reducts, and the empty criteria tuple
\* does not have the quality of the full criteria set
C2_Witness ==
  /\ DoneOk("find_reducts")
  /\ Len(ret.val) = 2
  /\ ~QEq(quality(<<>>), quality(criteria))

\* C3: reduct minimality.  For a non-empty criteria tuple of distinct
\* indices, no non-empty proper subset of a reduct find_reducts() has
\* returned has the quality of the full criteria set.
C3_ReductMinimality ==
  (DoneOk("find_reducts") /\ Len(criteria) >= 1
      /\ Cardinality(ToSet(criteria)) = Len(criteria)) =>
     \A j \in 1..Len(ret.val) :
        \A S \in SUBSET ToSet(ret.val[j]) :
           (S # {} /\ S # ToSet(ret.val[j])) =>
              ~QEq(quality(SortedTuple(S)), quality(criteria))

\* find_reducts() has returned a reduct of two criteria
C3_Witness ==
  /\ DoneOk("find_reducts")
  /\ Len(criteria) >= 1
  /\ \E j \in 1..Len(ret.val) : Cardinality(ToSet(ret.val[j])) = 2

\* no subset find_reducts() enumerates has the quality of the full set
NoSubsetAccepted ==
  \A r \in 1..Len(criteria) :
     LET subsets == combinations(criteria, r)
     IN  \A k \in 1..Len(subsets) :
            ~QEq(quality(subsets[k]), quality(criteria))

\* C4: find_reducts() never returns an empty list: on a fitted engine with
\* N >= 1 (and one decision label per object) it returns, what it returns has
\* at least one reduct, and when no enumerated subset is accepted it returns
\* the full configured criteria set as the only reduct.
C4_ReductsNeverEmpty ==
  /\ (Done("find_reducts") /\ is_fit /\ N >= 1 /\ Len(decision_attribute) = N) =>
        ret.status = "ok"
  /\ (DoneOk("find_reducts") /\ N >= 1) =>
        /\ Len(ret.val) >= 1
        /\ NoSubsetAccepted => ret.val = <<criteria>>

\* find_reducts() has returned by its fallback: no subset was accepted
C4_Witness ==
  /\ DoneOk("find_reducts") /\ N >= 1
  /\ NoSubsetAccepted
  /\ ret.val = <<criteria>>

\* C5: core(reducts) with the empty list, on a fitted engine whose decision
\* attribute has one label per object, does not fail and returns the empty
\* tuple.
C5_CoreOfEmptyList ==
  (Done("core") /\ is_fit /\ Len(decision_attribute) = N
      /\ ~ret.args.omitted /\ Len(ret.args.reducts) = 0) =>
     (ret.status = "ok" /\ Len(ret.val) = 0)

\* C6: core containment.  For a non-empty list of reducts, core(reducts) is
\* the ascending tuple of exactly the criteria that are members of every
\* reduct of the list.
C6_CoreContainment ==
  (DoneOk("core") /\ Len(ret.args.reducts) >= 1) =>
     LET reducts == ret.args.reducts
         common == {c \in Columns : \A j \in 1..Len(reducts) : c \in ToSet(reducts[j])}
     IN  /\ \A c \in ToSet(ret.val) :
               \A j \in 1..Len(reducts) : c \in ToSet(reducts[j])
         /\ common \subseteq ToSet(ret.val)

\* core() has returned a non-empty core of two different reducts
C6_Witness ==
  /\ DoneOk("core")
  /\ Len(ret.args.reducts) = 2
  /\ ToSet(ret.args.reducts[1]) # ToSet(ret.args.reducts[2])
  /\ Len(ret.val) >= 1

\* the engine is fitted as in the documentation's concrete scenario
InScenario ==
  /\ is_fit
  /\ F_pareto = ScenarioF
  /\ decision_attribute = ScenarioDecision
  /\ criteria = ScenarioCriteria
  /\ direction = "up"

\* C7: the concrete scenario.  On the engine fitted with [[1],[2],[3]],
\* [1,2,3], (0,), up: positive_cone((0,)) is [[T,F,F],[T,T,F],[T,T,T]],
\* lower_approx_up((0,), 2) is [False, True, True], quality((0,)) is 1.0,
\* find_reducts() is [(0,)] and core([(0,)]) is (0,).
C7_Scenario ==
  (InScenario /\ pc = "returned") =>
     /\ (ret.op = "positive_cone" /\ ret.args.P = <<0>>) =>
           /\ ret.status = "ok"
           /\ ret.val = << <<TRUE, FALSE, FALSE>>,
                           <<TRUE, TRUE, FALSE>>,
                           <<TRUE, TRUE, TRUE>> >>
     /\ (ret.op = "lower_approx_up" /\ ret.args.P = <<0>> /\ ret.args.t = 2) =>
           /\ ret.status = "ok"
           /\ ret.val = <<FALSE, TRUE, TRUE>>
     /\ (ret.op = "quality" /\ ret.args.P = <<0>>) =>
           /\ ret.status = "ok"
           /\ QEq(ret.val, <<1, 1>>)
     /\ ret.op = "find_reducts" =>
           /\ ret.status = "ok"
           /\ ret.val = << <<0>> >>
     /\ (ret.op = "core" /\ ret.args.reducts = << <<0>> >>) =>
           /\ ret.status = "ok"
           /\ ret.val = <<0>>

\* lower_approx_up((0,), 2) has returned in the scenario
C7_Witness ==
  /\ InScenario
  /\ DoneOk("lower_approx_up")
  /\ ret.args.P = <<0>>
  /\ ret.args.t = 2

\* C8: dominance cones.  positive_cone(P)[y,x] is true exactly when
\* F[y,i] >= F[x,i] for all i in P and negative_cone(P)[y,x] exactly when
\* F[y,i] <= F[x,i] for all i in P; both are reflexive, and
\* negative_cone(P)[y,x] = positive_cone(P)[x,y].
C8_Cones ==
  /\ DoneOk("positive_cone") =>
        \A y, x \in 1..N :
           /\ ret.val[y][x] =
                 (\A i \in ToSet(ret.args.P) : F_pareto[y][i + 1] >= F_pareto[x][i + 1])
           /\ ret.val[x][x]
           /\ ret.val[y][x] = negative_cone(ret.args.P)[x][y]
  /\ DoneOk("negative_cone") =>
        \A y, x \in 1..N :
           /\ ret.val[y][x] =
                 (\A i \in ToSet(ret.args.P) : F_pareto[y][i + 1] <= F_pareto[x][i + 1])
           /\ ret.val[x][x]
           /\ ret.val[y][x] = positive_cone(ret.args.P)[x][y]

\* positive_cone(P) has returned a mask, on two criteria, in which one
\* object dominates another and is not dominated by it
C8_Witness ==
  /\ DoneOk("positive_cone")
  /\ Len(ret.args.P) = 2
  /\ \E y, x \in 1..N : ret.val[y][x] /\ ~ret.val[x][y]

\* the methods of the engine that are called on an instance
InstanceMethods ==
  {"positive_cone", "negative_cone", "lower_approx_up", "upper_approx_up",
   "lower_approx_down", "upper_approx_down", "quality", "find_reducts", "core",
   "induce_decision_rules"}

\* C9 as stated: every method called on an engine that was never fitted
\* fails with the not-fitted error and returns no result.
C9_EveryMethodGuarded ==
  (pc = "returned" /\ ~is_fit /\ ret.op # "fit") =>
     (ret.status = "NotFitted" /\ ret.val = <<>>)

\* C9 as amended: every instance method called on an engine that was never
\* fitted fails with the not-fitted error and returns no result.
C9_InstanceMethodsGuarded ==
  (pc = "returned" /\ ~is_fit /\ ret.op \in InstanceMethods) =>
     (ret.status = "NotFitted" /\ ret.val = <<>>)

\* find_reducts() was called on an engine that was never fitted
C9_Witness ==
  /\ Done("find_reducts")
  /\ ~is_fit
  /\ ret.status = "NotFitted"

\* C10: fit with a decision attribute whose length differs from the number
\* of rows of the objective matrix fails and leaves the engine not fitted.
C10_MismatchedFitRejected ==
  (Done("fit") /\ Len(decision_attribute) # Len(F_pareto)) =>
     (ret.status # "ok" /\ ~is_fit)

-----------------------------------------------------------------------------
(* Properties of the induced rules.  Of a rule r: r[1] is its profile,     *)
(* r[2] its conclusion, r[3] its support, r[4] its confidence, r[5] its    *)
(* kind, r[6] its direction and r[7] its description.                      *)

Induce == "induce_decision_rules"

\* C11: with a direction other than up and down (on an engine with one
\* decision label per object), quality, find_reducts and
\* induce_decision_rules end in the invalid-direction error and return no
\* result.
C11_UnknownDirectionRejected ==
  (pc = "returned" /\ is_fit /\ direction \notin {"up", "down"}
      /\ Len(decision_attribute) = N
      /\ ret.op \in {"quality", "find_reducts", Induce}) =>
     ret.status = "InvalidDirection"

\* r1 is subsumed by r2 as the contract words it: same conclusion, r2's
\* keys among r1's, and on each of r2's keys a threshold <= r1's for up,
\* >= r1's for down
IsSubsumedBy(r1, r2) ==
  /\ r1[2] = r2[2]
  /\ DOMAIN r2[1] \subseteq DOMAIN r1[1]
  /\ \A i \in DOMAIN r2[1] :
        IF r1[6] = "up" THEN r2[1][i] <= r1[1][i] ELSE r2[1][i] >= r1[1][i]

\* C12: rule minimality.  No rule returned by
\* induce_decision_rules(minimal=True) is subsumed by a different returned
\* rule with the same conclusion.
C12_RuleMinimality ==
  (DoneOk(Induce) /\ ret.args.minimal) =>
     \A j, k \in 1..Len(ret.val) :
        j # k => ~IsSubsumedBy(ret.val[j], ret.val[k])

\* induce_decision_rules(minimal=True) has returned two rules and has
\* filtered out a third
C12_Witness ==
  /\ DoneOk(Induce) /\ ret.args.minimal
  /\ Len(ret.val) >= 2
  /\ Len(ret.val) < Len(InducedRules(EffectiveCriteria(ret.args.P), ret.args.t))

\* the returned rules are those of the criteria Q: a certain rule with the
\* profile of x for each x in the lower approximation, a possible rule with
\* the profile of x for each x in upper minus lower, no other rule, and no
\* description twice
RulesAreThoseOf(Q) ==
  LET t == ret.args.t
      lower == InduceLower(Q, t)
      upper == InduceUpper(Q, t)
      rules == ret.val
      Has(kind, x) ==
        \E j \in 1..Len(rules) :
           rules[j][5] = kind /\ rules[j][1] = [i \in ToSet(Q) |-> F_pareto[x][i + 1]]
  IN  /\ \A x \in 1..N : lower[x] => Has("certain", x)
      /\ \A x \in 1..N : (upper[x] /\ ~lower[x]) => Has("possible", x)
      /\ \A j \in 1..Len(rules) :
            \E x \in 1..N :
               /\ rules[j][1] = [i \in ToSet(Q) |-> F_pareto[x][i + 1]]
               /\ upper[x]
               /\ rules[j][5] = (IF lower[x] THEN "certain" ELSE "possible")
      /\ \A j, k \in 1..Len(rules) : j # k => rules[j][7] # rules[k][7]

\* C13 as stated: with minimal=False, induce_decision_rules(criteria,
\* threshold) returns a certain rule with the profile on criteria for every
\* object of the lower approximation, a possible rule for every object of
\* upper minus lower, one rule per description, and no rule for an object
\* outside the upper approximation.
C13_KindsOfRules ==
  (DoneOk(Induce) /\ ~ret.args.minimal) => RulesAreThoseOf(ret.args.P)

\* C13 as amended: the same, on the criteria given when they are not empty
\* and on the engine's configured criteria when the criteria given are empty.
C13_KindsOfRulesOnUsedCriteria ==
  (DoneOk(Induce) /\ ~ret.args.minimal) =>
     RulesAreThoseOf(IF Len(ret.args.P) = 0 THEN criteria ELSE ret.args.P)

\* induce_decision_rules(minimal=False) has returned a possible rule on
\* given criteria, two objects share a description, and some object is
\* outside the upper approximation
C13_Witness ==
  /\ DoneOk(Induce) /\ ~ret.args.minimal
  /\ Len(ret.args.P) >= 1
  /\ \E k \in 1..Len(ret.val) : ret.val[k][5] = "possible"
  /\ Len(ret.val) < Len(Candidates(ret.args.P, ret.args.t))
  /\ \E x \in 1..N : ~InduceUpper(ret.args.P, ret.args.t)[x]

\* C14: robustness.  For every rule induce_decision_rules has returned, some
\* object of the objective matrix equals the rule's profile value on every
\* profiled criterion.
C14_Robustness ==
  DoneOk(Induce) =>
     \A j \in 1..Len(ret.val) :
        \E y \in 1..N :
           \A i \in DOMAIN ret.val[j][1] : F_pareto[y][i + 1] = ret.val[j][1][i]

\* induce_decision_rules has returned rules on two criteria, and the
\* objects do not all have the same profile
C14_Witness ==
  /\ DoneOk(Induce)
  /\ Len(ret.val) >= 2
  /\ \E j \in 1..Len(ret.val) : Cardinality(DOMAIN ret.val[j][1]) = 2

\* how induce_decision_rules ends on the arguments a: the exception, or the
\* returned list
InduceOutcome(a) ==
  IF InduceStatus(a.P, a.t, a.minimal) # "ok"
  THEN <<InduceStatus(a.P, a.t, a.minimal), <<>> >>
  ELSE <<"ok", induce_decision_rules(a.P, a.t, a.minimal)>>

\* C15: idempotence across calls.  What a call of induce_decision_rules has
\* returned is what a call with the same arguments returns on the engine it
\* leaves behind, and no step of a fitted engine (no query, whatever it is)
\* changes the matrix, the decision attribute, the criteria or the
\* direction: two calls with the same arguments return equal lists whatever
\* runs between them.
C15_Idempotence ==
  /\ []((Done(Induce) /\ is_fit) => <<ret.status, ret.val>> = InduceOutcome(ret.args))
  /\ [][is_fit => engine' = engine]_vars

\* induce_decision_rules has returned rules on a fitted engine
C15_Witness ==
  /\ DoneOk(Induce)
  /\ is_fit
  /\ Len(ret.val) >= 2

\* C18: certain rules are exact.  Every returned rule of kind certain has
\* confidence exactly 1 (every object that satisfies its premise has a
\* decision class meeting the threshold in the engine's direction) and
\* support at least 1/N; every returned rule of kind possible has confidence
\* strictly below 1.
C18_CertainExact ==
  DoneOk(Induce) =>
     \A j \in 1..Len(ret.val) :
        LET r == ret.val[j]
            covered == {y \in 1..N : \A i \in DOMAIN r[1] :
                          IF direction = "up" THEN F_pareto[y][i + 1] >= r[1][i]
                          ELSE F_pareto[y][i + 1] <= r[1][i]}
            met == {y \in covered :
                      IF direction = "up" THEN decision_attribute[y] >= ret.args.t
                      ELSE decision_attribute[y] <= ret.args.t}
        IN  /\ r[5] = "certain" =>
                  /\ QEq(r[4], <<1, 1>>)
                  /\ met = covered
                  /\ QLeq(<<1, N>>, r[3])
            /\ r[5] = "possible" =>
                  /\ ~QLeq(<<1, 1>>, r[4])
                  /\ met # covered

\* induce_decision_rules has returned a certain and a possible rule
C18_Witness ==
  /\ DoneOk(Induce)
  /\ \E j, k \in 1..Len(ret.val) :
        ret.val[j][5] = "certain" /\ ret.val[k][5] = "possible"

\* C19: certain knowledge survives the minimal filter.  With minimal=True
\* (direction up or down, one decision label per object), every object of
\* the lower approximation satisfies the premise of a returned rule of kind
\* certain.
C19_CertainSurvives ==
  (DoneOk(Induce) /\ ret.args.minimal /\ direction \in {"up", "down"}
      /\ Len(decision_attribute) = N) =>
     LET Q == IF Len(ret.args.P) = 0 THEN criteria ELSE ret.args.P
         lower == InduceLower(Q, ret.args.t)
     IN  \A x \in 1..N :
            lower[x] =>
               \E j \in 1..Len(ret.val) :
                  /\ ret.val[j][5] = "certain"
                  /\ \A i \in DOMAIN ret.val[j][1] :
                        IF direction = "up"
                        THEN F_pareto[x][i + 1] >= ret.val[j][1][i]
                        ELSE F_pareto[x][i + 1] <= ret.val[j][1][i]

-----------------------------------------------------------------------------
(* Properties of the association summary.                                  *)

Summarize == "summarize_association_rules"

RECURSIVE SupSum(_, _)
SupSum(rules, K) ==
  IF K = {} THEN 0
  ELSE LET k == CHOOSE k \in K : TRUE
       IN  rules[k][3] + SupSum(rules, K \ {k})

\* C16: association summary merging and order.  With top_k < 0 the summary
\* reports each distinct text once, with the sum of the supports and the
\* maximum of the confidences of all kept rules yielding that text, and its
\* lines are in descending merged confidence, then ascending text.
C16_MergeAndOrder ==
  (DoneOk(Summarize) /\ ret.args.top_k < 0) =>
     LET rules == ret.args.assoc_rules
         Yielding(T) == {k \in 1..Len(rules) : IsKept(rules[k]) /\ TextOf(rules[k]) = T}
         Texts == {TextOf(rules[k]) : k \in {k \in 1..Len(rules) : IsKept(rules[k])}}
         Sup(T) == SupSum(rules, Yielding(T))
         Conf(T) == CHOOSE c \in {rules[k][4] : k \in Yielding(T)} :
                       \A k \in Yielding(T) : rules[k][4] <= c
         lines == ret.val.lines
     IN  /\ Len(lines) = Cardinality(Texts)
         /\ \A T \in Texts :
               \E j \in 1..Len(lines) :
                  lines[j] = <<T, Format2f(Sup(T)), Format2f(Conf(T))>>
         /\ ret.val.summaries = {<<T, Sup(T), Conf(T)>> : T \in Texts}
         /\ \A j, k \in 1..Len(lines) :
               j < k =>
                  \/ Conf(lines[j][1]) > Conf(lines[k][1])
                  \/ /\ Conf(lines[j][1]) = Conf(lines[k][1])
                     /\ TextLess(lines[j][1], lines[k][1])

\* the summary (top_k < 0) has merged two rules of different confidence, the
\* lower one first in the input, and reports two texts, the first of which
\* is not the text of the first rule of the input
C16_Witness ==
  /\ DoneOk(Summarize) /\ ret.args.top_k < 0
  /\ Len(ret.val.lines) = 2
  /\ LET rules == ret.args.assoc_rules
     IN  /\ \E j, k \in 1..Len(rules) :
               /\ j < k /\ IsKept(rules[j]) /\ IsKept(rules[k])
               /\ TextOf(rules[j]) = TextOf(rules[k])
               /\ rules[j][4] < rules[k][4]
         /\ IsKept(rules[1])
         /\ TextOf(rules[1]) # ret.val.lines[1][1]

-----------------------------------------------------------------------------
(* Properties of the automated decision maker.                             *)

\* the step is a call of is_satisfied
IsSatisfiedCall == pc = "ready" /\ pc' = "returned" /\ ret'.op = "is_satisfied"

\* the call passes the sample-size, hypervolume and unchanged-rules checks
PassesChecks(T, rules) ==
  /\ T.rows > 1
  /\ Len(hv_indicator) = 1
  /\ ~(Len(prev_hv) = 1 /\ Abs(T.hv - prev_hv[1]) < vol_eps)
  /\ ~(Len(prev_rules) = 1 /\ rules = prev_rules[1])

\* C17: bounded stopping of the automated decision maker.  With
\* max_rounds >= 1, at most max_rounds - 1 calls of is_satisfied have
\* returned False; round never decreases; a call of is_satisfied that passes
\* the sample-size, hypervolume and unchanged-rules checks increases round by
\* exactly one, and a call stopped by one of them leaves round unchanged.
C17_BoundedStopping ==
  /\ [](max_rounds >= 1 => false_returns <= max_rounds - 1)
  /\ [][max_rounds >= 1 =>
          /\ round' >= round
          /\ IsSatisfiedCall =>
                IF PassesChecks(ret'.args.T, ret'.args.rules)
                THEN round' = round + 1
                ELSE round' = round]_vars

\* is_satisfied has returned True at the round limit of a decision maker
\* with max_rounds >= 2, after max_rounds - 1 calls that returned False
C17_Witness ==
  /\ Done("is_satisfied")
  /\ ret.status = "ok" /\ ret.val = TRUE
  /\ max_rounds >= 2
  /\ round = max_rounds
  /\ false_returns = max_rounds - 1

====
